---- MODULE Spec2Model ----
(***************************************************************************)
(* State-machine model of two services of the JobHub backend:              *)
(*   - server/services/puppeteerLauncher.js : getBrowser, withPage          *)
(*   - server/services/geminiService.js     : GeminiService                 *)
(* Every await of the source is a point where the event loop may run       *)
(* another handler, so every action below is one synchronous run of code   *)
(* between two awaits.                                                      *)
(***************************************************************************)
EXTENDS Integers, Sequences, FiniteSets, TLC

\* ------------------------------------------------------------------------
\* Bounds of the model
\* ------------------------------------------------------------------------
NCallers == 2       \* concurrent getBrowser / withPage calls
MaxRetries == 2     \* largest `retries` of the calls made one after another

Callers == 1..NCallers
RetryChoices == 0..MaxRetries
\* The interleaved calls are withPage(fn, { retries: 0 }): what they share is
\* the browser, which they get before their first attempt.
ConcRetryChoices == {0}

NGenCallers == 2    \* concurrent generateRaw / generateStream calls
MaxModels == 2      \* longest `models` list of the discovery endpoint

GenCallers == 1..NGenCallers

VARIABLES
    \* puppeteerLauncher.js
    browserPromise, launchState, launchCalls, wp,
    \* geminiService.js: the fields of the one GeminiService
    activeModelName, model, initPromise, cache,
    \* geminiService.js: the run of init() and of its current tryModel()
    initPc, initRuns, phase, idx, availableModels, probed, outcomes,
    probeState, curTimer, fetchCalls,
    \* geminiService.js: the clock and the generateRaw / generateStream calls
    now, gc,
    \* the auth routes: the POST /login requests being handled
    lg

launcherVars == <<browserPromise, launchState, launchCalls, wp>>
serviceVars == <<activeModelName, model, initPromise, cache>>
initVars == <<initPc, initRuns, phase, idx, availableModels, probed, outcomes,
              probeState, curTimer, fetchCalls>>
geminiVars == <<serviceVars, initVars, now, gc>>
vars == <<launcherVars, geminiVars, lg>>

\* ------------------------------------------------------------------------
\* puppeteerLauncher.js
\* ------------------------------------------------------------------------

\* An error value: the attempt that raised it and the call that raised it.
NoErr == [att |-> 0, kind |-> "none"]
Err(a, k) == [att |-> a, kind |-> k]

\* The frame of one getBrowser() or withPage() call.
IdleCall ==
    [pc |-> "idle", kind |-> "none", retries |-> 0, attempt |-> 0,
     awaited |-> 0, browser |-> 0, early |-> FALSE,
     openCalls |-> 0, opened |-> 0, closeCalls |-> 0, tryCloseFails |-> 0,
     fnCalls |-> 0, fnFails |-> 0, uaFails |-> 0, swallowed |-> 0,
     fnResult |-> 0, value |-> 0,
     err |-> NoErr, thrown |-> NoErr, result |-> "none"]

\* `let browserPromise = null;` and no call made yet.
LauncherInit ==
    /\ browserPromise = 0
    /\ launchState = [i \in 1..NCallers |-> "unused"]
    /\ launchCalls = 0
    /\ wp = [c \in Callers |-> IdleCall]

\* `if (!browserPromise)`
NeedsLaunchAfterFailure ==
    \/ browserPromise = 0
    \/ launchState[browserPromise] = "rejected"
NeedsLaunchAfterSettle ==
    \/ browserPromise = 0
    \/ launchState[browserPromise] # "resolved"
NeedsLaunch == browserPromise = 0

\* The synchronous body of getBrowser(): launch at most once, hand out the
\* promise.  The result is the promise the caller goes on to await.
GetBrowserBody(c, kind, r) ==
    LET launching == NeedsLaunch /\ launchCalls < NCallers
        p == IF launching THEN launchCalls + 1 ELSE browserPromise
    IN  /\ NeedsLaunch => launchCalls < NCallers
        /\ launchCalls' = IF launching THEN launchCalls + 1 ELSE launchCalls
        /\ launchState' = IF launching
                          THEN [launchState EXCEPT ![p] = "pending"]
                          ELSE launchState
        /\ browserPromise' = p
        /\ wp' = [wp EXCEPT ![c] =
                    [IdleCall EXCEPT !.pc = "awaitBrowser", !.kind = kind,
                                     !.retries = r, !.awaited = p,
                                     !.early = (launching \/ launchState[p] = "pending")]]

\* A caller calls getBrowser() directly.
CallGetBrowser(c) ==
    /\ wp[c].pc = "idle"
    /\ GetBrowserBody(c, "getBrowser", 0)

\* A caller calls withPage(fn, { retries }): line 22 runs getBrowser().
CallWithPage(c, R) ==
    /\ wp[c].pc = "idle"
    /\ \E r \in R : GetBrowserBody(c, "withPage", r)

\* puppeteer.launch() settles: the browser process started, or failed to.
LaunchSettle ==
    \E i \in 1..NCallers :
        /\ launchState[i] = "pending"
        /\ \E s \in {"resolved", "rejected"} :
               launchState' = [launchState EXCEPT ![i] = s]
        /\ UNCHANGED <<browserPromise, launchCalls, wp>>

\* `attempt > retries`
LastAttemptOffByOne(attempt, retries) == attempt >= retries
LastAttempt(attempt, retries) == attempt > retries

\* The head of the for loop with the attempt number a: `attempt <= retries + 1`
\* then `browser.newPage()` is called and awaited.
LoopHead(w, a) ==
    IF a <= w.retries + 1
    THEN [w EXCEPT !.attempt = a, !.pc = "newPage", !.openCalls = @ + 1]
    ELSE [w EXCEPT !.attempt = a, !.pc = "done", !.result = "returned"]

\* `await getBrowser()` resumes with the browser handle.
BrowserReady(c) ==
    /\ wp[c].pc = "awaitBrowser"
    /\ launchState[wp[c].awaited] = "resolved"
    /\ wp' = [wp EXCEPT ![c] =
                IF wp[c].kind = "getBrowser"
                THEN [wp[c] EXCEPT !.browser = wp[c].awaited, !.pc = "done",
                                   !.result = "returned"]
                ELSE LoopHead([wp[c] EXCEPT !.browser = wp[c].awaited], 1)]
    /\ UNCHANGED <<browserPromise, launchState, launchCalls>>

\* `await getBrowser()` throws the launch error: it is outside the loop and
\* outside the try, so it leaves withPage at once.
BrowserFailed(c) ==
    /\ wp[c].pc = "awaitBrowser"
    /\ launchState[wp[c].awaited] = "rejected"
    /\ wp' = [wp EXCEPT ![c] =
                [wp[c] EXCEPT !.pc = "done", !.result = "threw",
                              !.err = Err(0, "launch"),
                              !.thrown = Err(0, "launch")]]
    /\ UNCHANGED <<browserPromise, launchState, launchCalls>>

\* `catch (err)`: the error is bound, logged, and page.close() is called.
EnterCatchNoClose(w, e) == [w EXCEPT !.err = e, !.pc = "catchClose"]
EnterCatchKeepFirst(w, e) ==
    [w EXCEPT !.err = IF w.err = NoErr THEN e ELSE w.err,
              !.pc = "catchClose", !.closeCalls = @ + 1]
EnterCatch(w, e) ==
    [w EXCEPT !.err = e, !.pc = "catchClose", !.closeCalls = @ + 1]

\* `const page = await browser.newPage()` fails: line 24 is outside the try,
\* so the error leaves withPage at once.
OnNewPageFailRetried(w) ==
    LET e == Err(w.attempt, "newPage")
    IN  IF LastAttempt(w.attempt, w.retries)
        THEN [w EXCEPT !.err = e, !.pc = "done", !.result = "threw", !.thrown = e]
        ELSE LoopHead([w EXCEPT !.err = e], w.attempt + 1)
OnNewPageFail(w) ==
    LET e == Err(w.attempt, "newPage")
    IN  [w EXCEPT !.err = e, !.pc = "done", !.result = "threw", !.thrown = e]

\* newPage() resolves: the page exists, setUserAgent is called and awaited.
NewPageOk(c) ==
    /\ wp[c].pc = "newPage"
    /\ wp' = [wp EXCEPT ![c] = [wp[c] EXCEPT !.opened = @ + 1, !.pc = "setUA"]]
    /\ UNCHANGED <<browserPromise, launchState, launchCalls>>

NewPageFail(c) ==
    /\ wp[c].pc = "newPage"
    /\ wp' = [wp EXCEPT ![c] = OnNewPageFail(wp[c])]
    /\ UNCHANGED <<browserPromise, launchState, launchCalls>>

\* setUserAgent resolves: fn(page, attempt) is invoked and awaited.
SetUserAgentOk(c) ==
    /\ wp[c].pc = "setUA"
    /\ wp' = [wp EXCEPT ![c] = [wp[c] EXCEPT !.fnCalls = @ + 1, !.pc = "fn"]]
    /\ UNCHANGED <<browserPromise, launchState, launchCalls>>

\* setUserAgent rejects inside the try.
SetUserAgentFail(c) ==
    /\ wp[c].pc = "setUA"
    /\ wp' = [wp EXCEPT ![c] =
                EnterCatch([wp[c] EXCEPT !.uaFails = @ + 1],
                           Err(wp[c].attempt, "setUserAgent"))]
    /\ UNCHANGED <<browserPromise, launchState, launchCalls>>

\* fn resolves with its result (here: the number of the invocation that
\* produced it): `await page.close()` of line 31 is called.
FnOk(c) ==
    /\ wp[c].pc = "fn"
    /\ wp' = [wp EXCEPT ![c] = [wp[c] EXCEPT !.fnResult = wp[c].fnCalls,
                                              !.closeCalls = @ + 1, !.pc = "close"]]
    /\ UNCHANGED <<browserPromise, launchState, launchCalls>>

\* fn rejects inside the try.
FnFail(c) ==
    /\ wp[c].pc = "fn"
    /\ wp' = [wp EXCEPT ![c] =
                EnterCatch([wp[c] EXCEPT !.fnFails = @ + 1],
                           Err(wp[c].attempt, "fn"))]
    /\ UNCHANGED <<browserPromise, launchState, launchCalls>>

\* The close of line 31 resolves: `return result`.
CloseOk(c) ==
    /\ wp[c].pc = "close"
    /\ wp' = [wp EXCEPT ![c] = [wp[c] EXCEPT !.pc = "done", !.result = "returned",
                                              !.value = wp[c].fnResult]]
    /\ UNCHANGED <<browserPromise, launchState, launchCalls>>

\* The close of line 31 rejects: line 31 is inside the try, so the error is
\* caught by line 33 like any failure of the attempt.
OnTryCloseFailPropagates(w) ==
    LET e == Err(w.attempt, "close")
    IN  [w EXCEPT !.tryCloseFails = @ + 1, !.err = e, !.pc = "done",
                  !.result = "threw", !.thrown = e]
OnTryCloseFail(w) ==
    EnterCatch([w EXCEPT !.tryCloseFails = @ + 1], Err(w.attempt, "close"))

CloseFail(c) ==
    /\ wp[c].pc = "close"
    /\ wp' = [wp EXCEPT ![c] = OnTryCloseFail(wp[c])]
    /\ UNCHANGED <<browserPromise, launchState, launchCalls>>

\* `await page.close().catch(() => {})` settles with ce (NoErr: it resolved),
\* then `if (attempt > retries) throw err`, else the next turn of the loop.
AfterCatchClose(w, ce) ==
    IF LastAttempt(w.attempt, w.retries)
    THEN [w EXCEPT !.pc = "done", !.result = "threw", !.thrown = w.err]
    ELSE LoopHead(w, w.attempt + 1)

CatchCloseSettled(c) ==
    /\ wp[c].pc = "catchClose"
    /\ \E ce \in {NoErr, Err(wp[c].attempt, "catchClose")} :
           wp' = [wp EXCEPT ![c] =
                    AfterCatchClose([wp[c] EXCEPT !.swallowed =
                                        IF ce = NoErr THEN @ ELSE @ + 1], ce)]
    /\ UNCHANGED <<browserPromise, launchState, launchCalls>>

\* The caller has its result; its next call starts from a fresh frame.
CallReturns(c) ==
    /\ wp[c].pc = "done"
    /\ wp' = [wp EXCEPT ![c] = IdleCall]
    /\ UNCHANGED <<browserPromise, launchState, launchCalls>>

\* One step of the call of caller c, its `retries` option drawn from R.
CallStep(c, R) ==
    \/ CallGetBrowser(c)
    \/ CallWithPage(c, R)
    \/ BrowserReady(c)
    \/ BrowserFailed(c)
    \/ NewPageOk(c)
    \/ NewPageFail(c)
    \/ SetUserAgentOk(c)
    \/ SetUserAgentFail(c)
    \/ FnOk(c)
    \/ FnFail(c)
    \/ CloseOk(c)
    \/ CloseFail(c)
    \/ CatchCloseSettled(c)
    \/ CallReturns(c)

\* ------------------------------------------------------------------------
\* geminiService.js
\* ------------------------------------------------------------------------

Null == "null"

\* `const fastModels = [...]`
fastModels ==
    << "gemini-1.5-flash-8b", "gemini-2.0-flash-exp", "gemini-1.5-flash",
       "gemini-1.5-flash-latest", "gemini-1.5-pro", "gemini-pro" >>

\* Entries the discovery endpoint may list.  A name is the sequence of its
\* parts; supportedGenerationMethods may be missing.
ApiModels ==
    { [name |-> <<"models/", "gemini-pro">>, hasMethods |-> TRUE,
       methods |-> {"generateContent", "countTokens"}],
      [name |-> <<"tunedModels/", "my-model">>, hasMethods |-> TRUE,
       methods |-> {"generateContent"}],
      [name |-> <<"models/", "embedding-001">>, hasMethods |-> TRUE,
       methods |-> {"embedContent"}],
      [name |-> <<"models/", "aqa">>, hasMethods |-> FALSE, methods |-> {}] }

\* The bodies `modelsResponse.json()` may resolve to: `models` missing, or a
\* list of entries.
ApiData ==
    {[hasModels |-> FALSE, models |-> <<>>]} \cup
    {[hasModels |-> TRUE, models |-> l] :
        l \in UNION {[1..n -> ApiModels] : n \in 0..MaxModels}}

\* `name.replace('models/', '')`: the first occurrence is removed.
RECURSIVE ReplaceFirst(_, _)
ReplaceFirst(parts, part) ==
    IF parts = <<>> THEN <<>>
    ELSE IF Head(parts) = part THEN Tail(parts)
    ELSE <<Head(parts)>> \o ReplaceFirst(Tail(parts), part)

RECURSIVE Join(_)
Join(parts) == IF parts = <<>> THEN "" ELSE Head(parts) \o Join(Tail(parts))

\* `m.supportedGenerationMethods?.includes('generateContent')`
SupportsGenerateContent(m) == m.hasMethods /\ "generateContent" \in m.methods

\* `data.models?.filter(...)?.map(...) || []`
AvailableModels(data) ==
    IF ~data.hasModels THEN <<>>
    ELSE LET kept == SelectSeq(data.models, SupportsGenerateContent)
         IN  [i \in 1..Len(kept) |-> Join(ReplaceFirst(kept[i].name, "models/"))]

\* `this.cacheExpiry = 5 * 60 * 1000`
cacheExpiry == 5 * 60 * 1000
\* `if (this.cache.size > 100)`
CacheMax == 100
\* `prompt.substring(0, 100)`
KeyLen == 100

\* str.substring(0, n)
Substring(str, n) == SubSeq(str, 1, IF Len(str) < n THEN Len(str) ELSE n)
CacheKeyWholePrompt(prompt) == prompt
CacheKey(prompt) == Substring(prompt, KeyLen)

\* The frame of one generateRaw() or generateStream() call.
\* ------------------------------------------------------------------------
\* chatWithAI
\* ------------------------------------------------------------------------

\* Strings are sequences of characters.  message.toLowerCase():
LowerOf ==
    [A |-> "a", B |-> "b", C |-> "c", D |-> "d", E |-> "e", F |-> "f",
     G |-> "g", H |-> "h", I |-> "i", J |-> "j", K |-> "k", L |-> "l",
     M |-> "m", N |-> "n", O |-> "o", P |-> "p", Q |-> "q", R |-> "r",
     S |-> "s", T |-> "t", U |-> "u", V |-> "v", W |-> "w", X |-> "x",
     Y |-> "y", Z |-> "z"]
LowerChar(ch) == IF ch \in DOMAIN LowerOf THEN LowerOf[ch] ELSE ch
RECURSIVE ToLowerCase(_)
ToLowerCase(str) ==
    IF str = "" THEN "" ELSE LowerChar(Head(str)) \o ToLowerCase(Tail(str))

\* str.includes(sub)
Includes(str, sub) ==
    \E i \in 0..(Len(str) - Len(sub)) : SubSeq(str, i + 1, i + Len(sub)) = sub

jobKeywords ==
    { "job", "career", "resume", "interview", "apply", "application",
      "hire", "hiring", "recruiter", "company", "work", "position", "role",
      "faang", "google", "microsoft", "amazon", "meta", "apple",
      "software engineer", "developer", "data scientist", "analyst",
      "salary", "offer", "internship", "placement", "job market",
      "skill", "experience", "qualification", "cv", "cover letter",
      "recommend jobs", "suggest jobs", "best jobs", "suitable jobs" }

isJobRelatedQuestionCaseSensitive(message) ==
    \E keyword \in jobKeywords : Includes(message, keyword)
isJobRelatedQuestion(message) ==
    LET lowerMessage == ToLowerCase(message)
    IN  \E keyword \in jobKeywords : Includes(lowerMessage, keyword)

\* seq.slice(0, n), seq.slice(-n), seq.join(sep), `a || b` on strings
SliceFirst(seq, n) == SubSeq(seq, 1, IF Len(seq) < n THEN Len(seq) ELSE n)
SliceLast(seq, n) ==
    SubSeq(seq, IF Len(seq) > n THEN Len(seq) - n + 1 ELSE 1, Len(seq))
RECURSIVE JoinWith(_, _)
JoinWith(parts, sep) ==
    IF parts = <<>> THEN ""
    ELSE IF Len(parts) = 1 THEN parts[1]
    ELSE parts[1] \o sep \o JoinWith(Tail(parts), sep)
OrElse(str, default) == IF str = "" THEN default ELSE str

\* The context of a chat: `{}` is the record of empty lists.
EmptyContext ==
    [skills |-> <<>>, totalExperience |-> 0, education |-> <<>>,
     availableJobs |-> <<>>, chatHistory |-> <<>>]

\* The prompt of a job-related question.
JobPrompt(message, context) ==
    LET jobs == SliceFirst(context.availableJobs, 5)
        jobsSnippet ==
            JoinWith([i \in 1..Len(jobs) |->
                        jobs[i].title \o " @ " \o jobs[i].company], ", ")
        hist == SliceLast(context.chatHistory, 3)
        historySnippet ==
            JoinWith([i \in 1..Len(hist) |->
                        hist[i].role \o ": " \o Substring(hist[i].content, 60)],
                     " | ")
        skills == JoinWith(SliceFirst(context.skills, 5), ", ")
        exp == context.totalExperience
        edu == JoinWith(SliceFirst(context.education, 2), ", ")
    IN  "You are JobHub AI - an expert career advisor and job search as" \o
        "sistant.\n" \o
        "\n" \o
        "User Profile:\n" \o
        "- Skills: " \o
        OrElse(skills, "Not specified") \o
        "\n" \o
        "- Experience: " \o
        ToString(exp) \o
        " years\n" \o
        "- Education: " \o
        OrElse(edu, "Not specified") \o
        "\n" \o
        "\n" \o
        "Available Jobs: " \o
        OrElse(jobsSnippet, "No jobs loaded") \o
        "\n" \o
        "\n" \o
        "Recent Conversation: " \o
        OrElse(historySnippet, "None") \o
        "\n" \o
        "\n" \o
        "User Question: " \o
        message \o
        "\n" \o
        "\n" \o
        "Instructions:\n" \o
        "- If user asks about jobs/career, use their profile and availa" \o
        "ble jobs to give personalized advice\n" \o
        "- If recommending specific jobs, mention job titles and compan" \o
        "ies from available jobs\n" \o
        "- If profile is incomplete, suggest updating it for better rec" \o
        "ommendations\n" \o
        "- Be helpful, direct, and actionable\n" \o
        "- Keep response under 150 words\n" \o
        "\n" \o
        "Answer:"

\* The prompt of any other question.
GeneralPrompt(message, context) ==
    LET hist == SliceLast(context.chatHistory, 3)
        historySnippet ==
            JoinWith([i \in 1..Len(hist) |->
                        hist[i].role \o ": " \o Substring(hist[i].content, 80)],
                     "\n")
    IN  "You are a highly intelligent AI assistant - knowledgeable, hel" \o
        "pful, and versatile across all topics.\n" \o
        "\n" \o
        "You can help with:\n" \o
        "- General knowledge, science, math, history, technology\n" \o
        "- Life advice, productivity, learning strategies\n" \o
        "- Coding, debugging, technical problems\n" \o
        "- Creative writing, brainstorming, explanations\n" \o
        "- Problem-solving, decision-making, planning\n" \o
        "- And anything else the user needs\n" \o
        "\n" \o
        "Recent Conversation:\n" \o
        OrElse(historySnippet, "None") \o
        "\n" \o
        "\n" \o
        "User Question: " \o
        message \o
        "\n" \o
        "\n" \o
        "Instructions:\n" \o
        "- Give direct, accurate, and helpful answers\n" \o
        "- Be conversational but professional\n" \o
        "- If it's a complex question, break it down clearly\n" \o
        "- Use examples when helpful\n" \o
        "- Be encouraging and supportive\n" \o
        "- Keep response clear and concise (under 200 words unless more" \o
        " detail needed)\n" \o
        "\n" \o
        "Answer:"

\* chatWithAI(message, context) up to its call of generateRaw
ChatPrompt(message, context) ==
    IF isJobRelatedQuestion(message)
    THEN JobPrompt(message, context)
    ELSE GeneralPrompt(message, context)

\* ------------------------------------------------------------------------
\* JSON extraction: parseResume, getJobRecommendations, analyzeJobMarket
\* ------------------------------------------------------------------------

\* JSON.parse accepts the text: objects, arrays, strings, numbers without
\* exponent, true, false and null, with white space between the tokens.
\* Each operator takes the place to read from and gives the place after
\* what it read, 0 when the text is not JSON there.
Ch(str, i) == IF i >= 1 /\ i <= Len(str) THEN SubSeq(str, i, i) ELSE ""
Ws == {" ", "\n", "\t", "\r"}
Digits == {"0", "1", "2", "3", "4", "5", "6", "7", "8", "9"}
Literals == {"true", "false", "null"}
RECURSIVE SkipWs(_, _)
SkipWs(str, i) == IF Ch(str, i) \in Ws THEN SkipWs(str, i + 1) ELSE i
RECURSIVE StringEnd(_, _)
StringEnd(str, i) ==
    IF i > Len(str) \/ Ch(str, i) \in {"\n", "\t", "\r"} THEN 0
    ELSE IF Ch(str, i) = "\"" THEN i + 1
    ELSE IF Ch(str, i) = "\\"
    THEN IF i + 1 > Len(str) THEN 0 ELSE StringEnd(str, i + 2)
    ELSE StringEnd(str, i + 1)
RECURSIVE DigitsEnd(_, _)
DigitsEnd(str, i) == IF Ch(str, i) \in Digits THEN DigitsEnd(str, i + 1) ELSE i
NumberEnd(str, i) ==
    LET a == IF Ch(str, i) = "-" THEN i + 1 ELSE i
        b == DigitsEnd(str, a)
        d == DigitsEnd(str, b + 1)
    IN  IF b = a THEN 0
        ELSE IF Ch(str, b) # "." THEN b
        ELSE IF d = b + 1 THEN 0 ELSE d
LiteralEnd(str, i) ==
    IF \E l \in Literals : i + Len(l) - 1 <= Len(str)
                           /\ SubSeq(str, i, i + Len(l) - 1) = l
    THEN i + Len(CHOOSE l \in Literals : i + Len(l) - 1 <= Len(str)
                           /\ SubSeq(str, i, i + Len(l) - 1) = l)
    ELSE 0
RECURSIVE ParseValue(_, _)
RECURSIVE ParseElems(_, _)
RECURSIVE ParseMembers(_, _)
\* after `[`, and after an element
ArrayFrom(str, j) ==
    IF Ch(str, j) = "]" THEN j + 1 ELSE ParseElems(str, j)
ElemSep(str, k) ==
    IF Ch(str, k) = "]" THEN k + 1
    ELSE IF Ch(str, k) = "," THEN ParseElems(str, k + 1)
    ELSE 0
AfterElem(str, j) == IF j = 0 THEN 0 ELSE ElemSep(str, SkipWs(str, j))
\* after `{`, at a member, after its name, at its colon, after its value
ObjectFrom(str, j) ==
    IF Ch(str, j) = "}" THEN j + 1 ELSE ParseMembers(str, j)
MemberSep(str, e) ==
    IF Ch(str, e) = "}" THEN e + 1
    ELSE IF Ch(str, e) = "," THEN ParseMembers(str, e + 1)
    ELSE 0
AfterMember(str, v) == IF v = 0 THEN 0 ELSE MemberSep(str, SkipWs(str, v))
Colon(str, k) ==
    IF Ch(str, k) # ":" THEN 0 ELSE AfterMember(str, ParseValue(str, k + 1))
AfterName(str, j) == IF j = 0 THEN 0 ELSE Colon(str, SkipWs(str, j))
MemberAt(str, i) ==
    IF Ch(str, i) # "\"" THEN 0 ELSE AfterName(str, StringEnd(str, i + 1))
ValueAt(str, i) ==
    IF Ch(str, i) = "{" THEN ObjectFrom(str, SkipWs(str, i + 1))
    ELSE IF Ch(str, i) = "[" THEN ArrayFrom(str, SkipWs(str, i + 1))
    ELSE IF Ch(str, i) = "\"" THEN StringEnd(str, i + 1)
    ELSE IF Ch(str, i) \in Digits \cup {"-"} THEN NumberEnd(str, i)
    ELSE LiteralEnd(str, i)
ParseValue(str, from) == ValueAt(str, SkipWs(str, from))
ParseElems(str, from) == AfterElem(str, ParseValue(str, from))
ParseMembers(str, from) == MemberAt(str, SkipWs(str, from))
IsJSON(str) ==
    LET j == ParseValue(str, 1)
    IN  j # 0 /\ SkipWs(str, j) = Len(str) + 1

\* text.match(/\{[\s\S]*\}/) and text.match(/\[[\s\S]*\]/): from the first
\* opening bracket to the last closing one after it; "" when none.
Min(S) == CHOOSE x \in S : \A y \in S : x <= y
Max(S) == CHOOSE x \in S : \A y \in S : x >= y
Match(text, open, close) ==
    LET opens == {i \in 1..Len(text) : Ch(text, i) = open}
        closes == {j \in (Min(opens) + 1)..Len(text) : Ch(text, j) = close}
    IN  IF opens = {} THEN ""
        ELSE IF closes = {} THEN ""
        ELSE SubSeq(text, Min(opens), Max(closes))

\* A parsed value is written as its JSON text; Null is null.
extractFirstJSONBlock(text) ==
    LET match == Match(text, "{", "}")
    IN  IF match # "" /\ IsJSON(match) THEN match ELSE Null
extractFirstJSONArray(text) ==
    LET match == Match(text, "[", "]")
    IN  IF match # "" /\ IsJSON(match) THEN match ELSE Null

\* The elements of a parsed array and the members of a parsed object.
RECURSIVE ElemsFrom(_, _)
ElemNext(str, k) ==
    IF Ch(str, k) = "," THEN ElemsFrom(str, k + 1) ELSE <<>>
ElemRest(str, i, j) ==
    <<SubSeq(str, i, j - 1)>> \o ElemNext(str, SkipWs(str, j))
ElemCut(str, i) == ElemRest(str, i, ParseValue(str, i))
ElemsFrom(str, from) == ElemCut(str, SkipWs(str, from))
Elements(arr) ==
    IF Ch(arr, SkipWs(arr, 2)) = "]" THEN <<>> ELSE ElemsFrom(arr, 2)
RECURSIVE MembersFrom(_, _)
MemberNext(str, e) ==
    IF Ch(str, e) = "," THEN MembersFrom(str, e + 1) ELSE <<>>
MemberRest(str, key, b, v) ==
    <<[key |-> key, value |-> SubSeq(str, b, v - 1)]>>
    \o MemberNext(str, SkipWs(str, v))
MemberValue(str, key, b) == MemberRest(str, key, b, ParseValue(str, b))
MemberColon(str, i, j) ==
    MemberValue(str, SubSeq(str, i + 1, j - 2), SkipWs(str, SkipWs(str, j) + 1))
MemberKey(str, i) == MemberColon(str, i, StringEnd(str, i + 1))
MembersFrom(str, from) == MemberKey(str, SkipWs(str, from))
Members(obj) ==
    IF Ch(obj, 1) # "{" \/ Ch(obj, SkipWs(obj, 2)) = "}" THEN <<>>
    ELSE MembersFrom(obj, 2)
\* obj[key]: the last member of that name, Null when there is none.
Member(obj, key) ==
    LET ms == Members(obj)
        at == {i \in 1..Len(ms) : ms[i].key = key}
    IN  IF at = {} THEN Null ELSE ms[Max(at)].value
JsonTruthy(v) == v \notin {Null, "false", "0", "-0", "0.0", "\"\""}

\* `r && r.jobId && typeof r.matchScore === 'number'`
IsRecommendation(r) ==
    /\ JsonTruthy(Member(r, "jobId"))
    /\ Ch(Member(r, "matchScore"), 1) \in Digits \cup {"-"}

\* Texts the backend answers the three methods with: prose, an object
\* inside prose, an array of recommendations, and an object cut short.
ExtractTexts ==
    { "I cannot help with that.",
      "Here it is: {\"name\":\"Asha\",\"skills\":[\"Java\"]} Done.",
      "[{\"jobId\":\"j1\",\"matchScore\":0.9},{\"jobId\":\"j2\"}]",
      "{\"name\": " }

\* What each method makes of the text generateRaw gave it.
parseResumeResultSoft(text) ==
    [result |-> "returned", value |-> extractFirstJSONBlock(text)]
parseResumeResult(text) ==
    LET json == extractFirstJSONBlock(text)
    IN  IF json = Null
        THEN [result |-> "threw", value |-> "Failed to parse resume"]
        ELSE [result |-> "returned", value |-> json]
getJobRecommendationsResult(text) ==
    LET arr == extractFirstJSONArray(text)
    IN  IF arr = Null
        THEN [result |-> "returned", value |-> "[]"]
        ELSE [result |-> "returned",
              value |-> "[" \o JoinWith(SliceFirst(SelectSeq(Elements(arr),
                                           IsRecommendation), 5), ",") \o "]"]
analyzeJobMarketResult(text) ==
    [result |-> "returned", value |-> extractFirstJSONBlock(text)]

\* The same, worked out once for each text of ExtractTexts.
Extracted ==
    [api \in {"parseResume", "getJobRecommendations", "analyzeJobMarket"} |->
       [text \in ExtractTexts |->
          IF api = "parseResume" THEN parseResumeResult(text)
          ELSE IF api = "getJobRecommendations"
          THEN getJobRecommendationsResult(text)
          ELSE analyzeJobMarketResult(text)]]

\* The prompts of the three methods.
ResumePrompt(resumeText) ==
    LET truncated == Substring(resumeText, 2000)
    IN  "Extract JSON from resume (no markdown, no explanation):\n" \o
        "\n" \o
        truncated \o
        "\n" \o
        "\n" \o
        "JSON format:\n" \o
        "{\"name\":\"\",\"email\":\"\",\"phone\":\"\",\"skills\":[],\"experience\":[{\"t" \o
        "itle\":\"\",\"company\":\"\",\"duration\":\"\"}],\"education\":[{\"degree\":\"" \o
        "\",\"institution\":\"\",\"year\":\"\"}],\"summary\":\"\",\"totalExperience\":" \o
        "0}\n" \o
        "\n" \o
        "Output only JSON:"
RecommendPrompt(resumeData, availableJobs) ==
    LET topJobs == SliceFirst(availableJobs, 15)
        formattedJobs ==
            JoinWith([i \in 1..Len(topJobs) |->
                ToString(i) \o "|" \o topJobs[i].title \o "|"
                \o topJobs[i].company \o "|" \o topJobs[i].location \o "|"
                \o JoinWith(SliceFirst(topJobs[i].skills, 3), ",") \o "|"
                \o topJobs[i].id], "\n")
        skills == JoinWith(SliceFirst(resumeData.skills, 5), ", ")
        edu == JoinWith(SliceFirst(resumeData.education, 2), ", ")
    IN  "Match candidate to jobs. Output JSON array only.\n" \o
        "\n" \o
        "Candidate: " \o
        skills \o
        " | " \o
        ToString(resumeData.totalExperience) \o
        "y | " \o
        OrElse(edu, "N/A") \o
        "\n" \o
        "\n" \o
        "Jobs (ID|Title|Company|Location|Skills|JobID):\n" \o
        formattedJobs \o
        "\n" \o
        "\n" \o
        "JSON format:\n" \o
        "[{\"jobId\":\"exact_id\",\"matchScore\":0.85,\"reasons\":[\"reason1\",\"r" \o
        "eason2\"]}]\n" \o
        "\n" \o
        "Rules: score 0-1, limit 5, min score 0.6"
MarketPrompt(jobs) ==
    LET first == SliceFirst(jobs, 30)
        chunk ==
            JoinWith([i \in 1..Len(first) |->
                first[i].title \o "|" \o first[i].company \o "|"
                \o first[i].location \o "|" \o ToString(first[i].salaryMin)],
                "\n")
    IN  "Analyze jobs, return JSON only:\n" \o
        "\n" \o
        "Jobs (Title|Company|Location|Salary):\n" \o
        chunk \o
        "\n" \o
        "\n" \o
        "JSON format:\n" \o
        "{\"topSkills\":[\"skill1\",\"skill2\",\"skill3\"],\"salaryTrends\":\"brie" \o
        "f trend\",\"popularLocations\":[\"loc1\",\"loc2\"],\"insights\":[\"insig" \o
        "ht1\",\"insight2\"]}\n" \o
        "\n" \o
        "Output only JSON:"

\* ------------------------------------------------------------------------
\* Generation calls
\* ------------------------------------------------------------------------

\* The frame of a call: api is the public method called ("none" for a direct
\* call of generateRaw or generateStream), kind the generation method it
\* runs, text the text generateRaw gave back to the public method, at the
\* value of Date.now() when the call ended.
IdleGen ==
    [pc |-> "idle", api |-> "none", kind |-> "none", message |-> "",
     prompt |-> "", waited |-> FALSE, stale |-> FALSE, backendCalls |-> 0,
     text |-> Null, result |-> "none", value |-> Null, at |-> 0]

\* The state the constructor leaves: the fields set, and init() run up to
\* its first await, the probe of fastModels[0] inside tryModel.
GeminiInit ==
    /\ activeModelName = Null
    /\ model = Null
    /\ cache = <<>>
    /\ initPromise = "set"
    /\ initRuns = 1
    /\ initPc = "probe"
    /\ phase = "fast"
    /\ idx = 1
    /\ availableModels = <<>>
    /\ probed = <<fastModels[1]>>
    /\ outcomes = <<>>
    /\ probeState = "pending"
    /\ curTimer = "armed"
    /\ fetchCalls = 0
    /\ now = 0
    /\ gc = [c \in GenCallers |-> IdleGen]

\* The list the running for loop of init() iterates.
CandidateList == IF phase = "fast" THEN fastModels ELSE availableModels

\* `if (await this.tryModel(modelName)) return;`
StopsProbingNever(passed) == FALSE
StopsProbing(passed) == passed

\* `if (text && text.length > 0)`
ProbePassed(text) == text # ""

\* init() goes on after tryModel returned `passed`: it returns, or probes the
\* next candidate (tryModel up to its await: setTimeout, generateContent('OK')),
\* or calls the discovery endpoint, or gives up.  curTimer is the timer of the
\* probe in flight only: a timer left armed by a probe that rejected aborts a
\* controller nothing refers to any more.
AfterTryModelDiscoversEarly(passed) ==
    /\ IF StopsProbing(passed)
       THEN /\ initPc' = "done" /\ probeState' = "none" /\ curTimer' = "none"
            /\ UNCHANGED <<idx, phase, probed, fetchCalls>>
       ELSE IF phase = "fast"
       THEN /\ initPc' = "fetch" /\ fetchCalls' = fetchCalls + 1
            /\ probeState' = "none" /\ curTimer' = "none"
            /\ UNCHANGED <<idx, phase, probed>>
       ELSE IF idx < Len(CandidateList)
       THEN /\ idx' = idx + 1
            /\ probed' = Append(probed, CandidateList[idx + 1])
            /\ initPc' = "probe" /\ probeState' = "pending" /\ curTimer' = "armed"
            /\ UNCHANGED <<phase, fetchCalls>>
       ELSE /\ initPc' = "done" /\ probeState' = "none" /\ curTimer' = "none"
            /\ UNCHANGED <<idx, phase, probed, fetchCalls>>
AfterTryModel(passed) ==
    /\ IF StopsProbing(passed)
       THEN /\ initPc' = "done" /\ probeState' = "none" /\ curTimer' = "none"
            /\ UNCHANGED <<idx, phase, probed, fetchCalls>>
       ELSE IF idx < Len(CandidateList)
       THEN /\ idx' = idx + 1
            /\ probed' = Append(probed, CandidateList[idx + 1])
            /\ initPc' = "probe" /\ probeState' = "pending" /\ curTimer' = "armed"
            /\ UNCHANGED <<phase, fetchCalls>>
       ELSE IF phase = "fast"
       THEN /\ initPc' = "fetch" /\ fetchCalls' = fetchCalls + 1
            /\ probeState' = "none" /\ curTimer' = "none"
            /\ UNCHANGED <<idx, phase, probed>>
       ELSE /\ initPc' = "done" /\ probeState' = "none" /\ curTimer' = "none"
            /\ UNCHANGED <<idx, phase, probed, fetchCalls>>

\* The backend settles the probe request: generateContent('OK') resolves or
\* rejects.  Nothing makes it do so.
ProbeSettles ==
    /\ initPc = "probe" /\ probeState = "pending"
    /\ \E s \in {"resolved", "rejected"} : probeState' = s
    /\ UNCHANGED <<lg, launcherVars, serviceVars, now, gc>>
    /\ UNCHANGED <<initPc, initRuns, phase, idx, availableModels, probed,
                   outcomes, curTimer, fetchCalls>>

\* `setTimeout(() => controller.abort(), 8000)` of the probe in flight fires.
\* controller.signal is passed to nothing, so only the controller changes.
ProbeTimerFires ==
    /\ curTimer = "armed"
    /\ curTimer' = "fired"
    /\ UNCHANGED <<lg, launcherVars, serviceVars, now, gc>>
    /\ UNCHANGED <<initPc, initRuns, phase, idx, availableModels, probed,
                   outcomes, probeState, fetchCalls>>

\* tryModel resumes from `await testModel.generateContent('OK')`: with the
\* result, clearTimeout and `await probe.response`; with the error, the catch
\* block and `return false`.
ProbeResumes ==
    /\ initPc = "probe" /\ probeState \in {"resolved", "rejected"}
    /\ IF probeState = "resolved"
       THEN /\ initPc' = "response" /\ probeState' = "none" /\ curTimer' = "none"
            /\ UNCHANGED <<idx, phase, probed, outcomes, fetchCalls>>
       ELSE /\ outcomes' = Append(outcomes, FALSE)
            /\ AfterTryModel(FALSE)
    /\ UNCHANGED <<lg, launcherVars, serviceVars, now, gc, initRuns, availableModels>>

\* tryModel resumes from `await probe.response`: response.text() gives a
\* text, the empty text, or throws.
ProbeResponse ==
    /\ initPc = "response"
    /\ \E r \in {"text", "empty", "throws"} :
          LET text == IF r = "text" THEN "OK!" ELSE ""
              passed == r # "throws" /\ ProbePassed(text)
          IN  /\ model' = IF passed THEN probed[Len(probed)] ELSE model
              /\ activeModelName' = IF passed THEN probed[Len(probed)]
                                    ELSE activeModelName
              /\ outcomes' = Append(outcomes, r = "text")
              /\ AfterTryModel(passed)
    /\ UNCHANGED <<lg, launcherVars, initPromise, cache, now, gc, initRuns,
                   availableModels>>

\* init() resumes from `await fetch(...)`: fetch rejected (catch), the
\* response is not ok, or it is ok and `await modelsResponse.json()` follows.
FetchSettles ==
    /\ initPc = "fetch"
    /\ \E r \in {"rejected", "notOk", "ok"} :
          initPc' = IF r = "ok" THEN "json" ELSE "done"
    /\ UNCHANGED <<lg, launcherVars, serviceVars, now, gc>>
    /\ UNCHANGED <<initRuns, phase, idx, availableModels, probed, outcomes,
                   probeState, curTimer, fetchCalls>>

\* init() resumes from `await modelsResponse.json()`: it rejected (catch),
\* or it gave the data and the second for loop starts.
JsonFails ==
    /\ initPc = "json"
    /\ initPc' = "done"
    /\ UNCHANGED <<lg, launcherVars, serviceVars, now, gc>>
    /\ UNCHANGED <<initRuns, phase, idx, availableModels, probed, outcomes,
                   probeState, curTimer, fetchCalls>>

JsonSettles ==
    /\ initPc = "json"
    /\ \E data \in ApiData :
          LET list == AvailableModels(data)
          IN  /\ availableModels' = list
              /\ phase' = "avail"
              /\ IF list = <<>>
                 THEN /\ initPc' = "done"
                      /\ UNCHANGED <<idx, probed, probeState, curTimer>>
                 ELSE /\ idx' = 1
                      /\ probed' = Append(probed, list[1])
                      /\ initPc' = "probe" /\ probeState' = "pending"
                      /\ curTimer' = "armed"
    /\ UNCHANGED <<lg, launcherVars, serviceVars, now, gc>>
    /\ UNCHANGED <<initRuns, outcomes, fetchCalls>>

\* getCached(key): the entry's data while it is younger than cacheExpiry.
CacheIndex(key) ==
    IF \E i \in 1..Len(cache) : cache[i].key = key
    THEN CHOOSE i \in 1..Len(cache) : cache[i].key = key
    ELSE 0
getCachedInclusive(key) ==
    LET i == CacheIndex(key)
    IN  IF i # 0 /\ now - cache[i].timestamp <= cacheExpiry
        THEN cache[i].data
        ELSE Null
getCached(key) ==
    LET i == CacheIndex(key)
    IN  IF i # 0 /\ now - cache[i].timestamp < cacheExpiry
        THEN cache[i].data
        ELSE Null

setCacheKeepsFirst(key, data) ==
    LET i == CacheIndex(key)
        e == [key |-> key, data |-> data, timestamp |-> now]
        m == IF i # 0 THEN cache ELSE Append(cache, e)
    IN  IF Len(m) > CacheMax THEN Tail(m) ELSE m
setCacheKeepsAll(key, data) ==
    LET i == CacheIndex(key)
        e == [key |-> key, data |-> data, timestamp |-> now]
    IN  IF i # 0 THEN [cache EXCEPT ![i] = e] ELSE Append(cache, e)
setCacheEvictsOldestStamp(key, data) ==
    LET i == CacheIndex(key)
        e == [key |-> key, data |-> data, timestamp |-> now]
        m == IF i # 0 THEN [cache EXCEPT ![i] = e] ELSE Append(cache, e)
        o == CHOOSE j \in 1..Len(m) :
                \A k \in 1..Len(m) :
                   /\ m[j].timestamp <= m[k].timestamp
                   /\ m[j].timestamp = m[k].timestamp => j <= k
    IN  IF Len(m) > CacheMax
        THEN SubSeq(m, 1, o - 1) \o SubSeq(m, o + 1, Len(m))
        ELSE m
setCacheEvictsAtMax(key, data) ==
    LET i == CacheIndex(key)
        e == [key |-> key, data |-> data, timestamp |-> now]
        m == IF i # 0 THEN [cache EXCEPT ![i] = e] ELSE Append(cache, e)
    IN  IF Len(m) >= CacheMax THEN Tail(m) ELSE m

\* setCache(key, data): Map.set keeps the place of a key already there and
\* appends a new one; over 100 entries the first key of the Map is deleted.
setCache(key, data) ==
    LET i == CacheIndex(key)
        e == [key |-> key, data |-> data, timestamp |-> now]
        m == IF i # 0 THEN [cache EXCEPT ![i] = e] ELSE Append(cache, e)
    IN  IF Len(m) > CacheMax THEN Tail(m) ELSE m

\* `if (cached)`: null and the empty string are falsy.
Truthy(v) == v # Null /\ v # ""

\* ensureReady(): `if (this._initPromise)`
NeedsWaitNever == FALSE
NeedsWait == initPromise = "set"

\* `if (!this.model)`
ModelMissingNever == FALSE
ModelMissing == model = Null

\* chatWithAI: `return text`, and the catch around the whole method.
chatWithAICatchRethrows(err) == err
chatWithAICatch(err) == "Failed to get AI response"

\* What the public method makes of the outcome of its generateRaw call.
ApiResult(api, result, v) ==
    IF api = "chatWithAI"
    THEN IF result = "threw"
         THEN [result |-> "threw", value |-> chatWithAICatch(v)]
         ELSE [result |-> "returned", value |-> v]
    ELSE IF api = "parseResume"
    THEN IF result = "threw"
         THEN [result |-> "threw", value |-> "Failed to parse resume"]
         ELSE Extracted[api][v]
    ELSE IF api = "getJobRecommendations"
    THEN IF result = "threw"
         THEN [result |-> "returned", value |-> "[]"]
         ELSE Extracted[api][v]
    ELSE IF api = "analyzeJobMarket"
    THEN IF result = "threw"
         THEN [result |-> "returned", value |-> Null]
         ELSE Extracted[api][v]
    ELSE [result |-> result, value |-> v]

\* The frame once generateRaw or generateStream has returned or thrown v.
Done(f, result, v) ==
    LET r == ApiResult(f.api, result, v)
    IN  [f EXCEPT !.pc = "done", !.result = r.result, !.value = r.value,
                  !.at = now,
                  !.text = IF f.api # "none" /\ result = "returned"
                           THEN v ELSE Null]

\* A caller calls generateRaw(prompt) or generateStream(prompt): ensureReady
\* runs up to its await of _initPromise, or returns.
GenCall(c, P) ==
    /\ gc[c].pc = "idle"
    /\ \E k \in {"generateRaw", "generateStream"}, p \in P :
          gc' = [gc EXCEPT ![c] =
                    [IdleGen EXCEPT !.kind = k, !.prompt = p,
                                    !.pc = IF NeedsWait THEN "ensureWait"
                                           ELSE "ensured",
                                    !.waited = (NeedsWait /\ initPc # "done")]]
    /\ UNCHANGED <<lg, launcherVars, serviceVars, initVars, now>>

\* A caller calls chatWithAI(message, context): the prompt is built and
\* generateRaw runs up to the await in ensureReady.
ChatCall(c, M, X) ==
    /\ gc[c].pc = "idle"
    /\ \E message \in M, context \in X :
          gc' = [gc EXCEPT ![c] =
                    [IdleGen EXCEPT !.api = "chatWithAI",
                                    !.kind = "generateRaw",
                                    !.message = message,
                                    !.prompt = ChatPrompt(message, context),
                                    !.pc = IF NeedsWait THEN "ensureWait"
                                           ELSE "ensured",
                                    !.waited = (NeedsWait /\ initPc # "done")]]
    /\ UNCHANGED <<lg, launcherVars, serviceVars, initVars, now>>

\* The frame of a public method that has called generateRaw(prompt), which
\* has run up to the await in ensureReady.
Entered(api, prompt) ==
    [IdleGen EXCEPT !.api = api, !.kind = "generateRaw", !.prompt = prompt,
                    !.pc = IF NeedsWait THEN "ensureWait" ELSE "ensured",
                    !.waited = (NeedsWait /\ initPc # "done")]

\* parseResume(resumeText): an empty text throws before any request.
ParseResumeCall(c, R) ==
    /\ gc[c].pc = "idle"
    /\ \E resumeText \in R :
          gc' = [gc EXCEPT ![c] =
                    IF resumeText = ""
                    THEN Done([IdleGen EXCEPT !.api = "parseResume"],
                              "threw", "resumeText empty")
                    ELSE Entered("parseResume", ResumePrompt(resumeText))]
    /\ UNCHANGED <<lg, launcherVars, serviceVars, initVars, now>>

\* getJobRecommendations(resumeData, availableJobs): reading a field of a
\* null resumeData throws before any request.
RecommendCall(c, D, J) ==
    /\ gc[c].pc = "idle"
    /\ \E resumeData \in D, availableJobs \in J :
          gc' = [gc EXCEPT ![c] =
                    IF resumeData.isNull
                    THEN Done([IdleGen EXCEPT !.api = "getJobRecommendations"],
                              "threw", "TypeError")
                    ELSE Entered("getJobRecommendations",
                                 RecommendPrompt(resumeData, availableJobs))]
    /\ UNCHANGED <<lg, launcherVars, serviceVars, initVars, now>>

\* analyzeJobMarket(jobs)
MarketCall(c, J) ==
    /\ gc[c].pc = "idle"
    /\ \E jobs \in J :
          gc' = [gc EXCEPT ![c] = Entered("analyzeJobMarket", MarketPrompt(jobs))]
    /\ UNCHANGED <<lg, launcherVars, serviceVars, initVars, now>>

\* ensureReady resumes once init() has returned: `this._initPromise = null`.
EnsureResumes(c) ==
    /\ gc[c].pc = "ensureWait"
    /\ initPc = "done"
    /\ initPromise' = "null"
    /\ gc' = [gc EXCEPT ![c] = [gc[c] EXCEPT !.pc = "ensured"]]
    /\ UNCHANGED <<lg, launcherVars, activeModelName, model, cache, initVars, now>>

\* The Map holds an entry under the key, and the entry is older than
\* cacheExpiry or not.
HasEntry(key) == CacheIndex(key) # 0
Expired(key) == HasEntry(key) /\ now - cache[CacheIndex(key)].timestamp >= cacheExpiry
Fresh(key) == HasEntry(key) /\ ~Expired(key)

AfterEnsureStreamCached(c) ==
    /\ gc[c].pc = "ensured"
    /\ gc' = [gc EXCEPT ![c] =
          IF ModelMissing
          THEN [gc[c] EXCEPT !.pc = "done", !.result = "threw",
                             !.value = "No active Gemini model initialized"]
          ELSE IF Truthy(getCached(CacheKey(gc[c].prompt)))
          THEN [gc[c] EXCEPT !.pc = "done", !.result = "returned",
                             !.value = getCached(CacheKey(gc[c].prompt))]
          ELSE [gc[c] EXCEPT !.pc = "backend", !.backendCalls = @ + 1]]
    /\ UNCHANGED <<lg, launcherVars, serviceVars, initVars, now>>

\* The call resumes from `await this.ensureReady()`: the model check, then
\* for generateRaw the cache lookup, then the request to the backend.
\* (stale records that the lookup found an entry too old to serve.)
AfterEnsure(c) ==
    /\ gc[c].pc = "ensured"
    /\ gc' = [gc EXCEPT ![c] =
          IF ModelMissing
          THEN Done(gc[c], "threw", "No active Gemini model initialized")
          ELSE IF gc[c].kind = "generateRaw"
                  /\ Truthy(getCached(CacheKey(gc[c].prompt)))
          THEN Done(gc[c], "returned", getCached(CacheKey(gc[c].prompt)))
          ELSE [gc[c] EXCEPT !.pc = "backend", !.backendCalls = @ + 1,
                             !.stale = (gc[c].kind = "generateRaw"
                                        /\ Expired(CacheKey(gc[c].prompt)))]]
    /\ UNCHANGED <<lg, launcherVars, serviceVars, initVars, now>>

BackendAnswersCachesStream(c, T) ==
    /\ gc[c].pc = "backend"
    /\ \E text \in T :
          /\ cache' = setCache(CacheKey(gc[c].prompt), text)
          /\ gc' = [gc EXCEPT ![c] = [gc[c] EXCEPT !.pc = "done",
                       !.result = "returned",
                       !.value = IF gc[c].kind = "generateRaw" THEN text
                                 ELSE "stream"]]
    /\ UNCHANGED <<lg, launcherVars, activeModelName, model, initPromise, initVars, now>>

\* The backend answers: generateRaw stores and returns the text,
\* generateStream returns the stream.
BackendAnswers(c, T) ==
    /\ gc[c].pc = "backend"
    /\ \E text \in T :
          IF gc[c].kind = "generateRaw"
          THEN /\ cache' = setCache(CacheKey(gc[c].prompt), text)
               /\ gc' = [gc EXCEPT ![c] = Done(gc[c], "returned", text)]
          ELSE /\ cache' = cache
               /\ gc' = [gc EXCEPT ![c] = Done(gc[c], "returned", "stream")]
    /\ UNCHANGED <<lg, launcherVars, activeModelName, model, initPromise, initVars, now>>

\* The request, or response.text(), throws: the error leaves the call.
BackendFails(c) ==
    /\ gc[c].pc = "backend"
    /\ gc' = [gc EXCEPT ![c] = Done(gc[c], "threw", "backend error")]
    /\ UNCHANGED <<lg, launcherVars, serviceVars, initVars, now>>

\* The caller has its result; its next call starts from a fresh frame.
GenReturns(c) ==
    /\ gc[c].pc = "done"
    /\ gc' = [gc EXCEPT ![c] = IdleGen]
    /\ UNCHANGED <<lg, launcherVars, serviceVars, initVars, now>>

\* Date.now() advances between two steps of the program.
MaxTicks == 3
TickMs == cacheExpiry \div 2
Tick ==
    /\ now < MaxTicks * TickMs
    /\ now' = now + TickMs
    /\ UNCHANGED <<lg, launcherVars, serviceVars, initVars, gc>>

\* The prompts and backend texts of the calls made around initialization.
StartupPrompts == {"Say hello to a new user of JobHub."}
StartupTexts == {"Hello"}

\* ------------------------------------------------------------------------
\* Specifications
\* ------------------------------------------------------------------------

\* Calls made one after another by one caller, with every `retries` option.
PageNext ==
    /\ \/ LaunchSettle
       \/ CallStep(1, RetryChoices)
    /\ UNCHANGED <<geminiVars, lg>>

\* Calls of all callers, interleaved at their awaits.
LaunchNext ==
    /\ \/ LaunchSettle
       \/ \E c \in Callers : CallStep(c, ConcRetryChoices)
    /\ UNCHANGED <<geminiVars, lg>>

\* The GeminiService from its construction on: init() and the generation
\* calls made while it runs and after it.
GeminiNext ==
    \/ ProbeSettles
    \/ ProbeTimerFires
    \/ ProbeResumes
    \/ ProbeResponse
    \/ FetchSettles
    \/ JsonFails
    \/ JsonSettles
    \/ \E c \in GenCallers :
        \/ GenCall(c, StartupPrompts)
        \/ EnsureResumes(c)
        \/ AfterEnsure(c)
        \/ BackendAnswers(c, StartupTexts)
        \/ BackendFails(c)
        \/ GenReturns(c)

\* Prompts of which two are longer than 100 characters and share their
\* first 100, and one is shorter than 100; and the texts the backend gives.
LongPrefix ==
    "Summarise the following text in one sentence, keeping every name "
    \o "and every number that it contains: "
CachePrompts ==
    { LongPrefix \o "JobHub lists 40 new jobs a day.",
      LongPrefix \o "Asha has 5 years of experience.",
      "Hi" }
CacheTexts == {"", "Hi", "Yo"}

\* init(), then generateRaw and generateStream calls made one after another
\* while the clock advances.
InitStep ==
    \/ ProbeSettles
    \/ ProbeTimerFires
    \/ ProbeResumes
    \/ ProbeResponse
    \/ FetchSettles
    \/ JsonFails
    \/ JsonSettles
CacheNext ==
    \/ InitStep
    \/ Tick
    \/ GenCall(1, CachePrompts)
    \/ EnsureResumes(1)
    \/ AfterEnsure(1)
    \/ BackendAnswers(1, CacheTexts)
    \/ BackendFails(1)
    \/ GenReturns(1)

\* setCache called with one new key after another: the n-th call stores
\* under the n-th of MaxStores distinct keys.
MaxStores == 102
NthKey(n) == "prompt " \o ToString(n)
Stored ==
    IF cache = <<>> THEN 0
    ELSE CHOOSE n \in 1..MaxStores : NthKey(n) = cache[Len(cache)].key
StoreNext ==
    /\ Stored < MaxStores
    /\ \E text \in StartupTexts : cache' = setCache(NthKey(Stored + 1), text)
    /\ UNCHANGED <<lg, launcherVars, activeModelName, model, initPromise,
                   initVars, now, gc>>

\* Questions asked in a chat, the contexts they come with and the texts
\* the backend answers with.
ChatMessages ==
    { "What's a good resume format?",
      "What's the capital of France?",
      "Review my CV",
      "Fix my home network",
      "Tell me a joke" }
ChatContexts ==
    { EmptyContext,
      [skills |-> <<"Java", "SQL">>, totalExperience |-> 3,
       education |-> <<"B.Tech">>,
       availableJobs |-> <<[title |-> "Backend Developer", company |-> "Acme"]>>,
       chatHistory |-> <<[role |-> "user", content |-> "Hello"],
                         [role |-> "assistant", content |-> "Hi, how can I help?"]>>] }
ChatTexts == {"Sure.", "No."}

\* init(), then chatWithAI calls made one after another.
ChatNext ==
    \/ InitStep
    \/ ChatCall(1, ChatMessages, ChatContexts)
    \/ EnsureResumes(1)
    \/ AfterEnsure(1)
    \/ BackendAnswers(1, ChatTexts)
    \/ BackendFails(1)
    \/ GenReturns(1)

\* Inputs of the three methods.
ResumeTexts == {"", "Asha Rao\nSkills: Java, SQL\nB.Tech 2019"}
ResumeDatas ==
    { [isNull |-> TRUE],
      [isNull |-> FALSE, skills |-> <<"Java", "SQL">>, totalExperience |-> 3,
       education |-> <<"B.Tech">>] }
JobLists ==
    { << [title |-> "Backend Developer", company |-> "Acme",
          location |-> "Pune", skills |-> <<"Java", "SQL">>, id |-> "j1",
          salaryMin |-> 0] >> }

\* init(), then calls of the three methods made one after another.
ExtractNext ==
    \/ InitStep
    \/ ParseResumeCall(1, ResumeTexts)
    \/ RecommendCall(1, ResumeDatas, JobLists)
    \/ MarketCall(1, JobLists)
    \/ EnsureResumes(1)
    \/ AfterEnsure(1)
    \/ BackendAnswers(1, ExtractTexts)
    \/ BackendFails(1)
    \/ GenReturns(1)

\* setCache called with new keys and, once cacheExpiry has passed, again
\* with the first key while its entry is there and expired (the store a
\* generateRaw call makes after an expired lookup).
ExpiryTick ==
    /\ now < cacheExpiry
    /\ now' = now + cacheExpiry
    /\ UNCHANGED <<lg, launcherVars, serviceVars, initVars, gc>>
ReStore ==
    /\ Expired(NthKey(1))
    /\ \E text \in StartupTexts : cache' = setCache(NthKey(1), text)
    /\ UNCHANGED <<lg, launcherVars, activeModelName, model, initPromise,
                   initVars, now, gc>>
EvictNext ==
    \/ StoreNext
    \/ ReStore
    \/ ExpiryTick

\* init(), then generate calls of two callers, interleaved at their awaits,
\* with two prompts of one cache key and two backend texts.
OverlapCallers == {1, 2}
OverlapPrompts == {p \in CachePrompts : Len(p) > KeyLen}
OverlapTexts == {"JobHub lists 40 jobs.", "Asha has 5 years."}
OverlapNext ==
    \/ InitStep
    \/ \E c \in OverlapCallers :
        \/ GenCall(c, OverlapPrompts)
        \/ EnsureResumes(c)
        \/ AfterEnsure(c)
        \/ BackendAnswers(c, OverlapTexts)
        \/ BackendFails(c)
        \/ GenReturns(c)

\* init(), then chatWithAI calls of two callers while the clock advances:
\* one caller asks one general question, the other asks another.
ClockMessages ==
    [c \in OverlapCallers |->
        IF c = 1 THEN {"What's the capital of France?"}
        ELSE {"Tell me a joke"}]
ClockTexts == {"Paris.", "Knock knock."}
ChatClockNext ==
    \/ InitStep
    \/ Tick
    \/ \E c \in OverlapCallers :
        \/ ChatCall(c, ClockMessages[c], {EmptyContext})
        \/ EnsureResumes(c)
        \/ AfterEnsure(c)
        \/ BackendAnswers(c, ClockTexts)
        \/ BackendFails(c)
        \/ GenReturns(c)

\* ------------------------------------------------------------------------
\* The auth routes: POST /login
\* ------------------------------------------------------------------------

NRequests == 2      \* login requests handled at the same time
Requests == 1..NRequests

\* The loginAttempts field of a user document found by User.findOne.
LoadedAttempts == {0, 3}

\* The frame of one request: the body (valid: it passes the validators;
\* password: the right one or not), the account as User.findOne finds it
\* (exists, isLocked, loginAttempts), the calls made on the document, and
\* the answer (status, and whether its body carries a token).
IdleLogin ==
    [pc |-> "idle", valid |-> FALSE, password |-> "none",
     exists |-> FALSE, isLocked |-> FALSE, loginAttempts |-> 0,
     compareCalls |-> 0, incCalls |-> 0, saveCalls |-> 0,
     status |-> 0, token |-> FALSE]
LoginInit == lg = [r \in Requests |-> IdleLogin]

\* res.status(code).json(...): the answer, with a token or without.
Answer(f, code, token) ==
    [f EXCEPT !.pc = "done", !.status = code, !.token = token]

\* `if (user.isLocked)`
IsLockedIgnored(f) == FALSE
IsLocked(f) == f.isLocked

\* The request arrives: validationResult(req) answers 400 for an invalid
\* body, otherwise the handler awaits User.findOne({ email }).
LoginRequest(r) ==
    /\ lg[r].pc = "idle"
    /\ \E valid \in BOOLEAN, pw \in {"right", "wrong"},
          exists \in BOOLEAN, isLocked \in BOOLEAN, n \in LoadedAttempts :
          /\ (~exists => ~isLocked /\ n = 0)
          /\ (~valid => ~exists /\ pw = "wrong")
          /\ lg' = [lg EXCEPT ![r] =
                LET f == [IdleLogin EXCEPT !.valid = valid, !.password = pw,
                             !.exists = exists, !.isLocked = isLocked,
                             !.loginAttempts = n]
                IN  IF ~valid THEN Answer(f, 400, FALSE)
                    ELSE [f EXCEPT !.pc = "findOne"]]
    /\ UNCHANGED <<launcherVars, geminiVars>>

\* User.findOne settles: no user answers 401, a locked one 423, and for any
\* other the handler awaits user.comparePassword(password).
FindOneSettles(r) ==
    /\ lg[r].pc = "findOne"
    /\ lg' = [lg EXCEPT ![r] =
          IF ~lg[r].exists THEN Answer(lg[r], 401, FALSE)
          ELSE IF IsLocked(lg[r]) THEN Answer(lg[r], 423, FALSE)
          ELSE [lg[r] EXCEPT !.pc = "compare", !.compareCalls = @ + 1]]
    /\ UNCHANGED <<launcherVars, geminiVars>>

\* comparePassword settles: false has the handler await
\* user.incLoginAttempts(); true has it set loginAttempts to 0 and await
\* user.save().
CompareSettles(r) ==
    /\ lg[r].pc = "compare"
    /\ lg' = [lg EXCEPT ![r] =
          IF lg[r].password = "wrong"
          THEN [lg[r] EXCEPT !.pc = "inc", !.incCalls = @ + 1]
          ELSE [lg[r] EXCEPT !.pc = "save", !.loginAttempts = 0,
                             !.saveCalls = @ + 1]]
    /\ UNCHANGED <<launcherVars, geminiVars>>

\* incLoginAttempts settles: 401.
IncSettles(r) ==
    /\ lg[r].pc = "inc"
    /\ lg' = [lg EXCEPT ![r] = Answer(lg[r], 401, FALSE)]
    /\ UNCHANGED <<launcherVars, geminiVars>>

\* save settles: generateToken, and the answer with the token.
SaveSettles(r) ==
    /\ lg[r].pc = "save"
    /\ lg' = [lg EXCEPT ![r] = Answer(lg[r], 200, TRUE)]
    /\ UNCHANGED <<launcherVars, geminiVars>>

\* An awaited call of the User model, or jwt.sign, throws: the catch
\* answers 500.
LoginThrows(r) ==
    /\ lg[r].pc \in {"findOne", "compare", "inc", "save"}
    /\ lg' = [lg EXCEPT ![r] = Answer(lg[r], 500, FALSE)]
    /\ UNCHANGED <<launcherVars, geminiVars>>

\* The answer is sent; the next request starts from a fresh frame.
LoginReturns(r) ==
    /\ lg[r].pc = "done"
    /\ lg' = [lg EXCEPT ![r] = IdleLogin]
    /\ UNCHANGED <<launcherVars, geminiVars>>

\* Login requests, interleaved at their awaits.
LoginNext ==
    \E r \in Requests :
        \/ LoginRequest(r)
        \/ FindOneSettles(r)
        \/ CompareSettles(r)
        \/ IncSettles(r)
        \/ SaveSettles(r)
        \/ LoginThrows(r)
        \/ LoginReturns(r)

Init == LauncherInit /\ GeminiInit /\ LoginInit
SpecLogin == Init /\ [][LoginNext]_vars
SpecChatClock == Init /\ [][ChatClockNext]_vars
SpecOverlap == Init /\ [][OverlapNext]_vars
SpecEvict == Init /\ [][EvictNext]_vars
SpecExtract == Init /\ [][ExtractNext]_vars
SpecChat == Init /\ [][ChatNext]_vars
SpecFifo == Init /\ [][StoreNext]_vars
SpecCache == Init /\ [][CacheNext]_vars
SpecPage == Init /\ [][PageNext]_vars
SpecLaunch == Init /\ [][LaunchNext]_vars
SpecGemini == Init /\ [][GeminiNext]_vars

\* ------------------------------------------------------------------------
\* Properties of puppeteerLauncher.js
\* ------------------------------------------------------------------------

Finished(w) == w.kind = "withPage" /\ w.pc = "done"

\* Nothing but the operation failed in this call: the browser was obtained,
\* every newPage, setUserAgent and try-block close succeeded.
OnlyFnFailed(w) ==
    /\ w.browser # 0
    /\ w.opened = w.openCalls
    /\ w.uaFails = 0
    /\ w.tryCloseFails = 0

\* C1: Retry bound.  With nothing but the operation failing, an operation
\* that fails its first k invocations and succeeds on invocation k+1 makes
\* withPage return that invocation's result iff k <= retries, throw
\* otherwise, and be invoked min(k+1, retries+1) times.  (A finished call
\* that returned saw k = fnFails; one that threw saw k > retries.)
C1_RetryBound ==
    \A c \in Callers :
        LET w == wp[c]
        IN  (Finished(w) /\ OnlyFnFailed(w)) =>
              /\ w.result \in {"returned", "threw"}
              /\ w.result = "returned" =>
                    /\ w.fnFails <= w.retries
                    /\ w.fnCalls = w.fnFails + 1
                    /\ w.value = w.fnFails + 1
              /\ w.result = "threw" =>
                    /\ w.fnFails = w.retries + 1
                    /\ w.fnCalls = w.retries + 1

\* A call with retries = 2 whose operation failed once and then succeeded.
C1_Witness ==
    \E c \in Callers :
        /\ Finished(wp[c]) /\ OnlyFnFailed(wp[c])
        /\ wp[c].retries = 2 /\ wp[c].fnFails = 1
        /\ wp[c].result = "returned" /\ wp[c].fnCalls = 2

C3_SingleBrowser ==
    /\ launchCalls <= 1
    /\ \A c \in Callers :
          wp[c].pc # "idle" => (launchCalls = 1 /\ wp[c].awaited = 1)
    /\ \A c, d \in Callers :
          (wp[c].browser # 0 /\ wp[d].browser # 0) => wp[c].browser = wp[d].browser

\* Two calls made before the launch completed, both now holding the browser.
C3_Witness ==
    \E c, d \in Callers :
        /\ c # d
        /\ wp[c].early /\ wp[d].early
        /\ wp[c].browser = 1 /\ wp[d].browser = 1

\* C4 as stated: a failure to create the browser or to open a page reaches
\* the caller only from an attempt whose number exceeds retries (the launch
\* counted with the first attempt).
C4_AcquisitionFailureRetried ==
    \A c \in Callers :
        (Finished(wp[c]) /\ wp[c].thrown.kind \in {"launch", "newPage"}) =>
            (IF wp[c].attempt = 0 THEN 1 ELSE wp[c].attempt) > wp[c].retries

\* C4 amended: a failure to create the browser or to open a page is not
\* retried: withPage throws it at once, whatever retries is.  After a failed
\* launch no page was opened and the operation never ran; after a failed
\* newPage of attempt a, the call is over with a open calls made.
C4_AcquisitionFailureThrown ==
    \A c \in Callers :
        LET w == wp[c]
        IN  /\ (w.kind = "withPage" /\ w.err.kind = "launch") =>
                  /\ w.pc = "done" /\ w.result = "threw" /\ w.thrown = w.err
                  /\ w.attempt = 0 /\ w.openCalls = 0 /\ w.fnCalls = 0
            /\ w.err.kind = "newPage" =>
                  /\ w.pc = "done" /\ w.result = "threw" /\ w.thrown = w.err
                  /\ w.attempt = w.err.att /\ w.openCalls = w.err.att
                  /\ w.opened = w.err.att - 1

\* newPage failed in attempt 1 of a call with retries = 2, which is over.
C4_Witness ==
    \E c \in Callers :
        /\ Finished(wp[c]) /\ wp[c].retries = 2
        /\ wp[c].thrown = Err(1, "newPage") /\ wp[c].openCalls = 1

C6_LastFailureThrown ==
    \A c \in Callers :
        LET w == wp[c]
        IN  (Finished(w) /\ w.result = "threw" /\ w.attempt = w.retries + 1) =>
              /\ w.thrown.att = w.retries + 1
              /\ w.thrown.kind \in {"newPage", "setUserAgent", "fn", "close"}
              /\ w.thrown = w.err

\* Three failed attempts of a call with retries = 2: setUserAgent failed
\* first, the operation failed last, and a catch-block close failed too.
C6_Witness ==
    \E c \in Callers :
        /\ Finished(wp[c]) /\ wp[c].retries = 2 /\ wp[c].result = "threw"
        /\ wp[c].thrown = Err(3, "fn")
        /\ wp[c].uaFails >= 1 /\ wp[c].swallowed >= 1

\* ------------------------------------------------------------------------
\* Properties of geminiService.js
\* ------------------------------------------------------------------------

\* The i-th candidate of init(): the hardcoded list, then the discovered one.
CandidateAt(i) ==
    IF i <= Len(fastModels) THEN fastModels[i]
    ELSE availableModels[i - Len(fastModels)]

\* C7: First-success-wins probing.  init() probes the candidates in list
\* order, one at a time (a probe starts only when every earlier one has its
\* outcome); the active model is the first candidate whose probe gave a
\* non-empty text, and no candidate after it is probed.
C7_FirstSuccessWins ==
    /\ Len(probed) <= Len(fastModels) + Len(availableModels)
    /\ \A i \in 1..Len(probed) : probed[i] = CandidateAt(i)
    /\ Len(outcomes) \in {Len(probed) - 1, Len(probed)}
    /\ (Len(outcomes) = Len(probed) - 1) <=> (initPc \in {"probe", "response"})
    /\ \A i \in 1..Len(outcomes) :
          outcomes[i] => /\ i = Len(probed)
                         /\ initPc = "done"
                         /\ activeModelName = probed[i]
                         /\ model = probed[i]
    /\ (activeModelName # Null) <=> (\E i \in 1..Len(outcomes) : outcomes[i])

\* [A, B, ...] with B the first to succeed: B is active, C was never probed.
C7_Witness ==
    /\ initPc = "done"
    /\ probed = <<fastModels[1], fastModels[2]>>
    /\ outcomes = <<FALSE, TRUE>>
    /\ activeModelName = fastModels[2]

\* C8: Probe time bound.  Once the 8-second timer of a probe has fired, the
\* probe is no longer awaited: it was answered, or the abort has failed it.
C8_ProbeTimeBound ==
    ~(curTimer = "fired" /\ initPc = "probe" /\ probeState = "pending")

\* C9: Initialization once.  init() runs once, as one probe sequence with at
\* most one discovery request, and a generateRaw / generateStream call gets
\* past ensureReady() only when init() has returned.
C9_InitializationOnce ==
    /\ initRuns = 1
    /\ fetchCalls <= 1
    /\ Len(probed) <= Len(fastModels) + Len(availableModels)
    /\ initPromise = "null" => initPc = "done"
    /\ \A c \in GenCallers :
          gc[c].pc \in {"ensured", "backend", "done"} => initPc = "done"

\* Two calls made while init() was probing, both through with their result.
C9_Witness ==
    \E c, d \in GenCallers :
        /\ c # d
        /\ gc[c].waited /\ gc[d].waited
        /\ gc[c].pc = "done" /\ gc[d].pc = "done"
        /\ Len(probed) >= 2

\* C10: Uninitialized gateway.  While no probe has succeeded, no call has
\* sent a generation request, and a call that got past ensureReady() has
\* failed with 'No active Gemini model initialized'.
C10_UninitializedGateway ==
    \A c \in GenCallers :
        activeModelName = Null =>
            /\ gc[c].backendCalls = 0
            /\ gc[c].pc \in {"backend", "done"} =>
                  /\ gc[c].pc = "done"
                  /\ gc[c].result = "threw"
                  /\ gc[c].value = "No active Gemini model initialized"

\* Every candidate failed; a generateRaw and a generateStream call both
\* failed with the not-initialized error.
C10_Witness ==
    \E c, d \in GenCallers :
        /\ activeModelName = Null /\ initPc = "done"
        /\ gc[c].kind = "generateRaw" /\ gc[d].kind = "generateStream"
        /\ gc[c].pc = "done" /\ gc[d].pc = "done"
        /\ gc[c].value = "No active Gemini model initialized"
        /\ gc[d].value = "No active Gemini model initialized"

\* init() has returned without an active model.
Exhausted == initPc = "done" /\ activeModelName = Null

\* C11: Exhaustion is persistent.  The discovery endpoint is queried at most
\* once and only when all hardcoded candidates have failed; and once init()
\* has returned without an active model, no step of any call probes again,
\* queries discovery again or sets the active model.
C11_ExhaustionPersistent ==
    /\ [](fetchCalls <= 1)
    /\ [](fetchCalls = 1 =>
            /\ Len(outcomes) >= Len(fastModels)
            /\ \A i \in 1..Len(fastModels) : ~outcomes[i])
    /\ [][Exhausted =>
            /\ Exhausted'
            /\ probed' = probed
            /\ fetchCalls' = fetchCalls
            /\ model' = Null]_vars

\* Hardcoded and discovered candidates all failed, and a generateRaw call
\* made after that has come back with the not-initialized error.
C11_Witness ==
    /\ Exhausted
    /\ fetchCalls = 1
    /\ Len(availableModels) >= 1
    /\ Len(probed) = Len(fastModels) + Len(availableModels)
    /\ initPromise = "null"
    /\ \E c \in GenCallers :
          /\ ~gc[c].waited /\ gc[c].pc = "done" /\ gc[c].result = "threw"

\* C12: Active model set at most once.  The active model is null exactly
\* while no probe has given a non-empty text, and once it is set no step
\* changes it or the model handle.
C12_ActiveModelSetOnce ==
    /\ []((activeModelName = Null) <=> (\A i \in 1..Len(outcomes) : ~outcomes[i]))
    /\ []((activeModelName = Null) <=> (model = Null))
    /\ [][activeModelName # Null =>
            /\ activeModelName' = activeModelName
            /\ model' = model]_vars

\* The third candidate is active, and a generateRaw call has since been
\* answered by the backend and cached.
C12_Witness ==
    /\ activeModelName = fastModels[3]
    /\ cache # <<>>
    /\ \E c \in GenCallers :
          /\ gc[c].pc = "done" /\ gc[c].result = "returned"
          /\ gc[c].backendCalls = 1

\* The cache lookup of a generateRaw call of c is about to run, or has run
\* in this step, with an active model.
RawLookup(c) ==
    /\ gc[c].pc = "ensured" /\ gc[c].kind = "generateRaw"
    /\ ~ModelMissing
    /\ gc'[c] # gc[c]
RawKey(c) == CacheKey(gc[c].prompt)

\* C13: Cache hit.  With an active model, a generateRaw call whose key has
\* an entry younger than cacheExpiry returns the stored text and sends no
\* request to the backend, whatever the stored text is.
C13_CacheHit ==
    [][\A c \in GenCallers :
          (RawLookup(c) /\ Fresh(RawKey(c))) =>
             /\ gc'[c].pc = "done" /\ gc'[c].result = "returned"
             /\ gc'[c].value = cache[CacheIndex(RawKey(c))].data
             /\ gc'[c].backendCalls = 0]_vars

\* C14: Cache expiry.  generateRaw returns from the cache only an entry
\* younger than cacheExpiry; an entry of that age or older is treated as
\* absent: one request goes to the backend, and its answer replaces the
\* entry, in its place, with the new text stamped with the current time.
C14_CacheExpiry ==
    /\ [](\A c \in GenCallers : gc[c].backendCalls <= 1)
    /\ [][\A c \in GenCallers :
          /\ (RawLookup(c) /\ gc'[c].result = "returned") =>
                /\ Fresh(RawKey(c))
                /\ gc'[c].value = cache[CacheIndex(RawKey(c))].data
          /\ (RawLookup(c) /\ Expired(RawKey(c))) =>
                /\ gc'[c].pc = "backend"
                /\ gc'[c].backendCalls = 1
                /\ cache' = cache
          /\ (/\ gc[c].pc = "backend" /\ gc[c].kind = "generateRaw"
              /\ gc'[c].result = "returned") =>
                /\ \E j \in 1..Len(cache') :
                      /\ cache'[j] = [key |-> RawKey(c),
                                      data |-> gc'[c].value,
                                      timestamp |-> now]
                      /\ HasEntry(RawKey(c)) => j = CacheIndex(RawKey(c))
                /\ HasEntry(RawKey(c)) => Len(cache') = Len(cache)
                /\ \A j \in 1..Len(cache') : \A k \in 1..Len(cache') :
                      cache'[j].key = cache'[k].key => j = k]_vars

\* A generateRaw call found an entry exactly cacheExpiry old, asked the
\* backend once, and the entry now holds the new text and time.
C14_Witness ==
    \E c \in GenCallers :
       /\ gc[c].kind = "generateRaw" /\ gc[c].stale
       /\ gc[c].pc = "done" /\ gc[c].result = "returned"
       /\ gc[c].backendCalls = 1
       /\ now = cacheExpiry
       /\ cache = << [key |-> CacheKey(gc[c].prompt), data |-> gc[c].value,
                      timestamp |-> now] >>

\* C16: Stream never cached.  No step of a generateStream call changes the
\* cache.
C16_StreamNeverCached ==
    [][\A c \in GenCallers :
          (/\ gc[c].kind = "generateStream" \/ gc'[c].kind = "generateStream"
           /\ gc'[c] # gc[c]) => cache' = cache]_vars

\* A generateStream call got its stream from the backend while the cache
\* holds other keys and nothing under the prefix of its prompt.
C16_Witness ==
    \E c \in GenCallers :
       /\ gc[c].kind = "generateStream"
       /\ gc[c].pc = "done" /\ gc[c].result = "returned"
       /\ gc[c].backendCalls = 1
       /\ cache # <<>>
       /\ ~HasEntry(CacheKey(gc[c].prompt))

\* The request decision of a generateStream call of c, with an active model.
StreamDecision(c) ==
    /\ gc[c].pc = "ensured" /\ gc[c].kind = "generateStream"
    /\ ~ModelMissing
    /\ gc'[c] # gc[c]

\* C17, as stated: a generateStream call whose 100-character key has an
\* entry younger than cacheExpiry sends no request to the backend.
C17_StreamUsesCache ==
    [][\A c \in GenCallers :
          (StreamDecision(c) /\ Fresh(CacheKey(gc[c].prompt))) =>
             gc'[c].backendCalls = 0]_vars

\* C17, amended: generateStream does not look at the cache; with an active
\* model it always sends one request to the backend.
C17_StreamBypassesCache ==
    [][\A c \in GenCallers :
          StreamDecision(c) =>
             /\ gc'[c].pc = "backend"
             /\ gc'[c].backendCalls = 1]_vars

\* A generateStream call is waiting for the backend although the cache
\* holds a fresh non-empty text under the prefix of its prompt.
C17_Witness ==
    \E c \in GenCallers :
       /\ gc[c].kind = "generateStream" /\ gc[c].pc = "backend"
       /\ Fresh(CacheKey(gc[c].prompt))
       /\ Truthy(getCached(CacheKey(gc[c].prompt)))

\* C15: FIFO eviction.  Starting from the empty cache, once entries have
\* been stored under 101 distinct keys the first key is gone and the other
\* 100 are there; in general the cache holds the last CacheMax keys stored,
\* oldest first.
C15_FifoEviction ==
    /\ Len(cache) <= CacheMax
    /\ Stored = CacheMax + 1 =>
          /\ ~HasEntry(NthKey(1))
          /\ \A n \in 2..(CacheMax + 1) : HasEntry(NthKey(n))
    /\ LET first == IF Stored > CacheMax THEN Stored - CacheMax + 1 ELSE 1
       IN  /\ Len(cache) = Stored - first + 1
           /\ \A j \in 1..Len(cache) : cache[j].key = NthKey(first + j - 1)

\* The 101st key has just been stored.
C15_Witness ==
    /\ Stored = CacheMax + 1
    /\ Len(cache) = CacheMax
    /\ cache[1].key = NthKey(2)

\* C18: Generation-time failure.  When a model is active and the backend
\* request of a chatWithAI call fails, the call throws 'Failed to get AI
\* response', it has sent exactly one request, and the cache is unchanged.
C18_GenerationFailure ==
    /\ [](\A c \in GenCallers : gc[c].backendCalls <= 1)
    /\ [][\A c \in GenCallers :
          (/\ gc[c].api = "chatWithAI" /\ gc[c].pc = "backend"
           /\ gc'[c].pc = "done" /\ gc'[c].text = Null) =>
             /\ gc'[c].result = "threw"
             /\ gc'[c].value = "Failed to get AI response"
             /\ gc'[c].backendCalls = 1
             /\ cache' = cache]_vars

\* A chatWithAI call has failed at the backend, with an active model and a
\* cache that holds the answer of an earlier call.
C18_Witness ==
    \E c \in GenCallers :
       /\ gc[c].api = "chatWithAI" /\ gc[c].pc = "done"
       /\ gc[c].result = "threw" /\ gc[c].backendCalls = 1
       /\ model # Null
       /\ cache # <<>>

\* The messages of ChatMessages that contain a keyword once lower-cased,
\* found by reading them: "resume", "cv" (written CV), "work" (in network).
JobMessages ==
    { "What's a good resume format?", "Review my CV", "Fix my home network" }
ClassifiedJob == {m \in ChatMessages : isJobRelatedQuestion(m)}
StartsWith(str, head) == Substring(str, Len(head)) = head
JobHead == "You are JobHub AI - an expert career advisor"
GeneralHead == "You are a highly intelligent AI assistant"

\* C20: Keyword classification.  isJobRelatedQuestion is true of exactly
\* the messages that contain a keyword once lower-cased, true of "What's a
\* good resume format?" and false of "What's the capital of France?"; and
\* the prompt of a chatWithAI call is the job prompt exactly when it is true
\* of the message, the general prompt otherwise.
C20_KeywordClassification ==
    /\ ClassifiedJob = JobMessages
    /\ "What's a good resume format?" \in ClassifiedJob
    /\ "What's the capital of France?" \in ChatMessages \ ClassifiedJob
    /\ \A c \in GenCallers :
          gc[c].api = "chatWithAI" =>
             /\ StartsWith(gc[c].prompt, JobHead) <=> gc[c].message \in JobMessages
             /\ StartsWith(gc[c].prompt, GeneralHead) <=> gc[c].message \notin JobMessages
             /\ Includes(gc[c].prompt, "User Question: " \o gc[c].message \o "\n")

\* A chatWithAI call with a message whose keyword is in upper case has been
\* answered for the job prompt.
C20_Witness ==
    \E c \in GenCallers :
       /\ gc[c].api = "chatWithAI" /\ gc[c].message = "Review my CV"
       /\ StartsWith(gc[c].prompt, JobHead)
       /\ gc[c].pc = "done" /\ gc[c].result = "returned"

\* Some part of the text is a JSON object or array.
ContainsJson(text) ==
    \E i \in 1..Len(text), j \in 1..Len(text) :
        /\ i < j
        /\ Ch(text, i) \in {"{", "["}
        /\ IsJSON(SubSeq(text, i, j))
JsonFree == {t \in ExtractTexts : ~ContainsJson(t)}

\* C19: Malformed extraction.  When the text generateRaw gave contains no
\* JSON object or array, getJobRecommendations returns the empty list,
\* analyzeJobMarket returns null, and parseResume throws 'Failed to parse
\* resume'.
C19_MalformedExtraction ==
    \A c \in GenCallers :
       (gc[c].pc = "done" /\ gc[c].text \in JsonFree) =>
          /\ gc[c].api = "getJobRecommendations" =>
                gc[c].result = "returned" /\ gc[c].value = "[]"
          /\ gc[c].api = "analyzeJobMarket" =>
                gc[c].result = "returned" /\ gc[c].value = Null
          /\ gc[c].api = "parseResume" =>
                gc[c].result = "threw" /\ gc[c].value = "Failed to parse resume"

\* parseResume has thrown on a text without JSON, after the two other
\* methods were answered with texts without JSON as well.
C19_Witness ==
    /\ \E c \in GenCallers :
          /\ gc[c].api = "parseResume" /\ gc[c].pc = "done"
          /\ gc[c].text \in JsonFree /\ gc[c].result = "threw"
          /\ gc[c].backendCalls = 1
    /\ Len(cache) = 3
    /\ \A i \in 1..Len(cache) : cache[i].data \in JsonFree
    /\ JsonFree = {"I cannot help with that.", "{\"name\": "}

\* The keys in the cache, and the entries a step removes.
CacheKeys == {cache[i].key : i \in 1..Len(cache)}
Evicted == {i \in 1..Len(cache) : cache[i].key \notin CacheKeys'}

\* C21, as stated: the entry a store evicts was stored last no later than
\* every entry that remains.
C21_EvictsLeastRecentlyStored ==
    [][\A i \in Evicted : \A j \in 1..Len(cache') :
          cache[i].timestamp <= cache'[j].timestamp]_vars

\* C21, amended: the entry a store evicts is the first of the Map, the one
\* whose key was inserted before every key that remains, whenever it was
\* stored last.
C21_EvictsFirstInserted ==
    [][\A i \in Evicted :
          /\ i = 1
          /\ \A n \in 1..MaxStores : \A m \in 1..MaxStores :
                (cache[i].key = NthKey(n) /\ NthKey(m) \in CacheKeys') => n < m]_vars

\* The cache is full, its first entry is the first key stored again after
\* it expired, and the entries behind it were stored before that: the next
\* new key evicts the entry stored last.
C21_Witness ==
    /\ Len(cache) = CacheMax
    /\ cache[1].key = NthKey(1)
    /\ cache[1].timestamp = cacheExpiry
    /\ \A j \in 2..Len(cache) : cache[j].timestamp = 0

\* C22: Cache size bound.  Between two calls of setCache the cache holds at
\* most CacheMax entries, and a call of setCache removes at most one key.
C22_CacheSizeBound ==
    /\ [](Len(cache) <= CacheMax)
    /\ [][Cardinality(Evicted) <= 1]_vars

\* The cache is full and a key has been evicted from it.
C22_Witness ==
    /\ Len(cache) = CacheMax
    /\ Stored > CacheMax

\* The launch has failed.
LaunchFailed == browserPromise # 0 /\ launchState[browserPromise] = "rejected"

\* C23: Failed launch is sticky.  puppeteer.launch is called at most once;
\* when it has failed, every getBrowser and withPage call that ends, ends
\* with the launch error, with no page opened and fn not invoked, and no
\* step launches again.
C23_FailedLaunchSticky ==
    /\ [](launchCalls <= 1)
    /\ [](LaunchFailed =>
            \A c \in Callers :
               /\ wp[c].openCalls = 0 /\ wp[c].fnCalls = 0 /\ wp[c].browser = 0
               /\ wp[c].pc \in {"idle", "awaitBrowser", "done"}
               /\ wp[c].pc = "done" =>
                     /\ wp[c].result = "threw"
                     /\ wp[c].thrown = Err(0, "launch"))
    /\ [][LaunchFailed =>
            /\ LaunchFailed'
            /\ launchCalls' = launchCalls
            /\ browserPromise' = browserPromise]_vars

\* After the launch failed, a withPage call and a getBrowser call were made
\* and both have thrown.
C23_Witness ==
    /\ LaunchFailed
    /\ launchCalls = 1
    /\ \E c, d \in Callers :
          /\ wp[c].kind = "withPage" /\ wp[d].kind = "getBrowser"
          /\ ~wp[c].early /\ ~wp[d].early
          /\ wp[c].pc = "done" /\ wp[d].pc = "done"
          /\ wp[c].result = "threw" /\ wp[d].result = "threw"

\* The generateRaw call of caller c looks up the cache and finds nothing to
\* serve; its request is answered and it stores the text.
LookupMisses(c) ==
    /\ gc[c].pc = "ensured" /\ gc[c].kind = "generateRaw"
    /\ ~ModelMissing
    /\ ~Truthy(getCached(CacheKey(gc[c].prompt)))
    /\ gc'[c] # gc[c]
Stores(c) ==
    /\ gc[c].pc = "backend" /\ gc[c].kind = "generateRaw"
    /\ gc'[c].pc = "done" /\ gc'[c].result = "returned"
\* Another call with the same cache key has looked up and has not stored.
Overlaps(c) ==
    \E d \in GenCallers \ {c} :
       /\ gc[d].pc = "backend" /\ gc[d].kind = "generateRaw"
       /\ CacheKey(gc[d].prompt) = CacheKey(gc[c].prompt)
EntriesOf(key) == {i \in 1..Len(cache) : cache[i].key = key}

\* C24: Overlapping generate calls are not coalesced.  A generateRaw call
\* whose lookup finds nothing issues its own backend request although
\* another call with the same key is waiting for its answer; a call that
\* stores returns the text its own request was answered with, leaves the
\* other calls as they are, and leaves exactly one entry under the key,
\* holding that text: the text stored last is the one that stays.
C24_NotCoalesced ==
    [][\A c \in GenCallers :
          /\ (LookupMisses(c) /\ Overlaps(c)) =>
                /\ gc'[c].pc = "backend"
                /\ gc'[c].backendCalls = 1
                /\ cache' = cache
          /\ (Stores(c) /\ Overlaps(c)) =>
                /\ gc'[c].value \in OverlapTexts
                /\ gc'[c].backendCalls = 1
                /\ \A d \in GenCallers \ {c} : gc'[d] = gc[d]
          /\ Stores(c) =>
                LET key == CacheKey(gc[c].prompt)
                IN  /\ \E i \in 1..Len(cache') :
                          /\ cache'[i].key = key
                          /\ cache'[i].data = gc'[c].value
                          /\ \A j \in 1..Len(cache') :
                                cache'[j].key = key => j = i]_vars

\* Two calls with different prompts of one key have both asked the backend
\* and returned different texts; the one entry under the key holds one of
\* the two.
C24_Witness ==
    \E c, d \in GenCallers :
       /\ gc[c].pc = "done" /\ gc[d].pc = "done"
       /\ gc[c].kind = "generateRaw" /\ gc[d].kind = "generateRaw"
       /\ gc[c].prompt # gc[d].prompt
       /\ CacheKey(gc[c].prompt) = CacheKey(gc[d].prompt)
       /\ gc[c].backendCalls = 1 /\ gc[d].backendCalls = 1
       /\ gc[c].result = "returned" /\ gc[d].result = "returned"
       /\ gc[c].value # gc[d].value
       /\ Cardinality(EntriesOf(CacheKey(gc[c].prompt))) = 1
       /\ \A i \in EntriesOf(CacheKey(gc[c].prompt)) : cache[i].data = gc[d].value

\* The messages asked that are not job-related, and the first 100
\* characters of the general template.
GeneralMessages ==
    {m \in ChatMessages \cup UNION {ClockMessages[c] : c \in OverlapCallers} :
        ~isJobRelatedQuestion(m)}
GeneralKey == CacheKey(GeneralPrompt("", EmptyContext))
GeneralKeys ==
    {CacheKey(GeneralPrompt(m, x)) : m \in GeneralMessages, x \in ChatContexts}
\* The chatWithAI call of caller c has a general message; it has returned a
\* non-empty text; it is about to look up the cache.
General(c) == gc[c].api = "chatWithAI" /\ gc[c].message \in GeneralMessages
ReturnedText(c) ==
    /\ General(c)
    /\ gc[c].pc = "done" /\ gc[c].result = "returned"
    /\ Truthy(gc[c].value)
LooksUp(c) ==
    /\ General(c)
    /\ gc[c].pc = "ensured"
    /\ gc'[c] # gc[c]
ServedFromCache(c, text) ==
    /\ gc'[c].pc = "done" /\ gc'[c].result = "returned"
    /\ gc'[c].value = text
    /\ gc'[c].backendCalls = 0
    /\ cache' = cache

\* C25 as stated: a chatWithAI call with a general message that looks up
\* the cache less than 5 minutes after a chatWithAI call with another
\* general message returned a non-empty text returns that text and asks the
\* backend nothing.  Violated: the earlier call may itself have been served
\* an entry that has expired by now, and another call may have stored
\* another text since.
C25_ReturnsEarlierText ==
    [][\A c, d \in GenCallers :
          (/\ c # d
           /\ ReturnedText(d)
           /\ LooksUp(c)
           /\ gc[c].message # gc[d].message
           /\ now - gc[d].at < cacheExpiry)
          => ServedFromCache(c, gc[d].value)]_vars

\* C25, amended: General chat shares one cache key.  The prompt of every
\* general message, with every context, has the same first 100 characters,
\* so every general chatWithAI call uses one key; and such a call that looks
\* up the cache less than 5 minutes after the entry under that key was
\* stored returns the non-empty text stored there and asks the backend
\* nothing.
C25_SharedGeneralKey ==
    /\ [](/\ GeneralKeys = {GeneralKey}
          /\ \A c \in GenCallers :
               (General(c) /\ gc[c].pc # "idle") =>
                  CacheKey(gc[c].prompt) = GeneralKey)
    /\ [][\A c \in GenCallers :
            (/\ LooksUp(c)
             /\ Fresh(GeneralKey)
             /\ Truthy(cache[CacheIndex(GeneralKey)].data))
            => ServedFromCache(c, cache[CacheIndex(GeneralKey)].data)]_vars

\* A general question was answered by the backend; half the expiry time
\* later another general question has got the same text from the cache.
C25_Witness ==
    \E c, d \in GenCallers :
       /\ ReturnedText(d) /\ gc[d].backendCalls = 1 /\ gc[d].at = 0
       /\ ReturnedText(c) /\ gc[c].backendCalls = 0 /\ gc[c].at = TickMs
       /\ gc[c].message # gc[d].message
       /\ gc[c].prompt # gc[d].prompt
       /\ gc[c].value = gc[d].value

\* The request of r is answered; the account it is for exists and is
\* locked, or is not locked.
Answered(r) == lg[r].pc = "done"
ForLocked(r) == lg[r].valid /\ lg[r].exists /\ lg[r].isLocked
ForUnlocked(r) == lg[r].valid /\ lg[r].exists /\ ~lg[r].isLocked

\* C26 as stated: a request for a locked account is answered 423 with no
\* comparison, no incLoginAttempts call and no token; for an unlocked one a
\* wrong password has incLoginAttempts called once and is answered 401 with
\* no token, a right one has loginAttempts set to 0 and is answered with a
\* token.  Violated: a call of the User model that throws is answered 500.
C26_LockoutOrdering ==
    \A r \in Requests :
       Answered(r) =>
          /\ ForLocked(r) =>
                /\ lg[r].status = 423
                /\ lg[r].compareCalls = 0 /\ lg[r].incCalls = 0
                /\ ~lg[r].token
          /\ (ForUnlocked(r) /\ lg[r].password = "wrong") =>
                /\ lg[r].incCalls = 1
                /\ lg[r].status = 401
                /\ ~lg[r].token
          /\ (ForUnlocked(r) /\ lg[r].password = "right") =>
                /\ lg[r].loginAttempts = 0
                /\ lg[r].token

\* C26, amended: Login lockout ordering.  Unless it is answered 500, a
\* request for a locked account is answered 423, for an unlocked one with a
\* wrong password 401 after one incLoginAttempts call, with a right one 200
\* with a token after loginAttempts was set to 0 and saved.  In every case a
\* request for a locked account compares no password and calls
\* incLoginAttempts never, a wrong password calls it at most once, and a
\* token is only issued for an unlocked account, a right password and a
\* save that succeeded.
C26_LockoutOrderingUnlessThrown ==
    \A r \in Requests :
       /\ (Answered(r) /\ lg[r].status # 500) =>
             /\ ForLocked(r) => lg[r].status = 423
             /\ (ForUnlocked(r) /\ lg[r].password = "wrong") =>
                   lg[r].status = 401 /\ lg[r].incCalls = 1
             /\ (ForUnlocked(r) /\ lg[r].password = "right") =>
                   /\ lg[r].status = 200 /\ lg[r].token
                   /\ lg[r].loginAttempts = 0 /\ lg[r].saveCalls = 1
       /\ ForLocked(r) =>
             /\ lg[r].compareCalls = 0 /\ lg[r].incCalls = 0
             /\ lg[r].saveCalls = 0 /\ ~lg[r].token
       /\ lg[r].incCalls <= 1
       /\ lg[r].incCalls = 1 => (lg[r].password = "wrong" /\ ~lg[r].token)
       /\ lg[r].token =>
             /\ ForUnlocked(r) /\ lg[r].password = "right"
             /\ lg[r].status = 200
             /\ lg[r].loginAttempts = 0 /\ lg[r].saveCalls = 1
             /\ lg[r].incCalls = 0

\* At the same time one request for a locked account with the right
\* password is answered 423, one for an unlocked account that had failed
\* attempts is answered with a token.
C26_Witness ==
    \E r, q \in Requests :
       /\ Answered(r) /\ ForLocked(r) /\ lg[r].password = "right"
       /\ lg[r].status = 423 /\ lg[r].compareCalls = 0
       /\ Answered(q) /\ ForUnlocked(q) /\ lg[q].password = "right"
       /\ lg[q].status = 200 /\ lg[q].token /\ lg[q].loginAttempts = 0
====
